---- MODULE Spec2Model ----
(***************************************************************************)
(* A model of the Fireblocks façade service: the configuration loader      *)
(* (app/config.py), the two lazily-initialised client managers             *)
(* (app/fireblocks_client.py, app/fireblocks_sdk_client.py), the           *)
(* application lifespan (app/main.py) and the route handlers               *)
(* (app/routes/*.py).                                                      *)
(*                                                                         *)
(* get_client and close_client are modelled statement by statement, one    *)
(* action per read or write of the shared class attribute _client, so      *)
(* that callers running on different threads interleave as the             *)
(* interpreter lets them.  Three specifications share these actions:       *)
(*   Spec     the application: startup validation, concurrent requests    *)
(*            whose client dependency runs get_client, shutdown;           *)
(*   SpecMgr  callers using the two managers directly, concurrently;       *)
(*   SpecSeq  the same callers, one call at a time (no concurrency).       *)
(*                                                                         *)
(* The vendor SDKs are not part of the repository: the outcome of a        *)
(* vendor constructor, of the vendor close() and of every vendor API       *)
(* method (return value or exception) is a nondeterministic input.         *)
(* The environment variables and the key file are fixed for the lifetime   *)
(* of the process.                                                         *)
(***************************************************************************)
EXTENDS Integers, Sequences, FiniteSets, TLC

\* ------------------------------------------------------------------ bounds

\* Number of threads that call the managers (request workers of the app).
NumThreads == 2

\* Number of direct manager calls started in one behaviour.
MaxCalls == 3

\* Number of HTTP requests received in one behaviour.
MaxRequests == 2

\* Longest key file contents, in characters.
KeyTextLen == 3

\* ------------------------------------------------------- program constants

\* Python's None for the _client attribute; handles are 1, 2, ...
None == 0

\* The thread that runs the application lifespan.
Main == 0

Threads == 1..NumThreads

AllThreads == {Main} \cup Threads

\* FireblocksClientManager ("fb") and FireblocksSDKClientManager ("sdk").
Managers == {"fb", "sdk"}

\* What a thread last got back from a manager call.
NoRet == [op |-> "none", raised |-> FALSE, h |-> None]

\* A thread calling a manager directly, not on behalf of a route.
NoRoute == "none"

VARIABLES
    env,        \* the process environment: API key, key path, key file
    keyText,    \* the contents of the key file, when there is one
    loaded,     \* the outcome of the last direct call of a Config method
    client,     \* client[m]: the _client class attribute of manager m
    nextId,     \* number of handles constructed so far (handle identities)
    closeLog,   \* the handles on which the vendor close() was invoked, in order
    built,      \* built[m]: handles constructed for m since m was last reset
    held,       \* held[m]: handles get_client returned for m since m was last reset
    pc,         \* pc[t]: where thread t is
    tm,         \* tm[t]: the manager thread t is calling
    tmp,        \* tmp[t]: the handle _create_client returned to t, not yet stored
    ret,        \* ret[t]: the result of t's last completed manager call
    inReq,      \* inReq[t]: thread t is serving an HTTP request, whose route
                \* uses manager tm[t]
    nstarted,   \* direct manager calls started
    nreq,       \* HTTP requests received
    ncalls,     \* vendor API method calls made
    lastResp    \* the request the last step answered, if it answered one:
                \* its input, its vendor call and the response

vars == <<env, keyText, loaded, client, nextId, closeLog, built, held, pc, tm, tmp, ret,
          inReq, nstarted, nreq, ncalls, lastResp>>

\* ------------------------------------------------------------ app/config.py

KeyFileStates == {"missing", "unreadable", "ok"}

Envs == [apiKey : BOOLEAN, pathSet : BOOLEAN, keyFile : KeyFileStates]

\* Config.get_secret_key: "ValueError" when the path variable is empty,
\* "FileNotFoundError" when the file does not exist, "OSError" when open()
\* fails, otherwise "ok" (the stripped contents are returned).
GetSecretKey(e) ==
    IF ~e.pathSet THEN "ValueError"
    ELSE IF e.keyFile = "missing" THEN "FileNotFoundError"
    ELSE IF e.keyFile = "unreadable" THEN "OSError"
    ELSE "ok"

\* A faulty validate that never looks at the API key.
ValidateSkipsApiKey(e) ==
    IF ~e.pathSet THEN "ValueError" ELSE GetSecretKey(e)

\* Whitespace, as str.strip() sees it.
IsSpace(c) == c \in {" ", "\n", "\t"}

RECURSIVE LStrip(_)
LStrip(s) == IF s # <<>> /\ IsSpace(Head(s)) THEN LStrip(Tail(s)) ELSE s

RECURSIVE RStrip(_)
RStrip(s) ==
    IF s # <<>> /\ IsSpace(s[Len(s)]) THEN RStrip(SubSeq(s, 1, Len(s) - 1)) ELSE s

\* A faulty strip: trailing whitespace is kept.
StripLeadingOnly(s) == LStrip(s)

\* str.strip(): leading and trailing whitespace removed.
Strip(s) == RStrip(LStrip(s))

\* What get_secret_key returns when it raises nothing: f.read().strip().
SecretKey(text) == Strip(text)

\* Config.validate: "ok" or the exception it raises.
Validate(e) ==
    IF ~e.apiKey THEN "ValueError"
    ELSE IF ~e.pathSet THEN "ValueError"
    ELSE GetSecretKey(e)

\* Contents of a key file: a key with whitespace around it.
DefaultKeyText == <<"k", "\n">>

\* No Config method has been called directly.
NoLoad == [op |-> "none", out |-> "ok", value |-> <<>>]

\* ------------------------------------------------------ HTTP status codes

Http200 == 200

Http201 == 201

Http400 == 400

Http404 == 404

Http422 == 422

Http500 == 500

\* ------------------------------------------------------------ Python values

\* Python values carry their type, so that None, "", 0 and objects can be
\* told apart and tested for truth as Python does.
PyNone == [t |-> "none"]

Str(s) == [t |-> "str", v |-> s]

IntV(n) == [t |-> "int", v |-> n]

Bool(b) == [t |-> "bool", v |-> b]

\* An instance of a model class: always true in a condition.
Obj(fields) == [t |-> "obj", v |-> fields]

List(seq) == [t |-> "list", v |-> seq]

\* `if v:`
Truthy(v) ==
    CASE v.t = "none" -> FALSE
      [] v.t = "str" -> v.v # ""
      [] v.t = "int" -> v.v # 0
      [] v.t = "bool" -> v.v
      [] v.t = "list" -> Len(v.v) > 0
      [] OTHER -> TRUE

EmptyDict == [k \in {} |-> PyNone]

\* dict.get(k): the value, or None when the key is absent.
Get(d, k) == IF k \in DOMAIN d THEN d[k] ELSE PyNone

\* dict.get(k, default).
GetOr(d, k, dflt) == IF k \in DOMAIN d THEN d[k] ELSE dflt

\* {k: v for k, v in d.items() if k not in mapped}
Without(d, mapped) == [k \in (DOMAIN d) \ mapped |-> d[k]]

\* {k: v for k, v in d.items() if v is not None}
DropNone(d) == [k \in {x \in DOMAIN d : d[x] # PyNone} |-> d[k]]

\* Strings whose characters matter are sequences of one-character strings.
LowerChar(c) ==
    CASE c = "N" -> "n" [] c = "O" -> "o" [] c = "T" -> "t" [] c = "F" -> "f"
      [] c = "U" -> "u" [] c = "D" -> "d" [] OTHER -> c

\* str.lower()
Lower(s) == [i \in 1..Len(s) |-> LowerChar(s[i])]

\* `sub in s`
Contains(s, sub) ==
    \E i \in 0..(Len(s) - Len(sub)) : SubSeq(s, i + 1, i + Len(sub)) = sub

Str404 == <<"4", "0", "4">>

StrNotFound == <<"n", "o", "t", " ", "f", "o", "u", "n", "d">>

\* The answer recorded for a request.
Answer(r, st, handled, calls, input, vcall, vresp, body) ==
    [route |-> r, status |-> st, handled |-> handled, calls |-> calls,
     input |-> input, vcall |-> vcall, vresp |-> vresp, body |-> body]

NoResp == Answer(NoRoute, Http200, FALSE, 0, EmptyDict, EmptyDict, EmptyDict, EmptyDict)

Routes == {"health", "list_accounts", "get_account", "create_account",
           "asset_balance", "addresses", "create_wallet", "create_transaction",
           "issue_token"}

\* Depends(get_fireblocks_client) or Depends(get_fireblocks_sdk_client).
ManagerOf(r) ==
    IF r \in {"list_accounts", "get_account", "create_account", "addresses"}
    THEN "fb" ELSE "sdk"

\* The routes that depend on manager m.
RoutesOf(m) == {r \in Routes \ {"health"} : ManagerOf(r) = m}

\* Routes with a request body or a constrained query parameter; the others
\* take path strings only and cannot fail schema validation.
CanFailSchema(r) ==
    r \in {"list_accounts", "create_account", "addresses", "create_wallet",
           "create_transaction", "issue_token"}

\* The step answers no request.
Quiet == lastResp' = NoResp

\* ---------------------------------------------------- the client managers

\* A faulty test: get_client constructs on every call.
NeedsCreateAlways(c) == TRUE

\* get_client: `if cls._client is None`.
NeedsCreate(c) == c = None

\* A faulty constructor: every construction yields the same object.
NewHandleShared(n) == 1

\* The identity of the handle the vendor constructor returns: a new object.
NewHandle(n) == n + 1

\* Only the first-generation handle has a close() that close_client calls.
HasClose(m) == m = "fb"

\* Where a thread goes when its manager call ends.
AfterCall(t, m) ==
    IF t = Main THEN (IF m = "fb" THEN "shut_sdk" ELSE "stopped") ELSE "idle"

\* The call of thread t ends by raising.  The lifespan does not catch it.
AfterRaise(t) == IF t = Main THEN "crashed" ELSE "idle"

InClose(t) == pc[t] \in {"cc_check", "cc_close", "cc_reset"}

\* get_client, line 1: read cls._client and test it.
GcCheck(t) ==
    /\ pc[t] = "gc_check"
    /\ pc' = [pc EXCEPT ![t] = IF NeedsCreate(client[tm[t]])
                               THEN "gc_create" ELSE "gc_return"]
    /\ Quiet
    /\ UNCHANGED <<env, keyText, loaded, client, nextId, closeLog, built, held, tm, tmp, ret,
                   inReq, nstarted, nreq, ncalls>>

\* _create_client succeeds: the secret is loaded and the vendor constructor
\* returns a new handle, held in a local until it is stored.
GcCreateOk(t) ==
    /\ pc[t] = "gc_create"
    /\ GetSecretKey(env) = "ok"
    /\ nextId' = NewHandle(nextId)
    /\ tmp' = [tmp EXCEPT ![t] = nextId']
    /\ built' = [built EXCEPT ![tm[t]] = @ \cup {nextId'}]
    /\ pc' = [pc EXCEPT ![t] = "gc_assign"]
    /\ Quiet
    /\ UNCHANGED <<env, keyText, loaded, client, closeLog, held, tm, ret,
                   inReq, nstarted, nreq, ncalls>>

\* get_client: `cls._client = <the new handle>`.
GcAssign(t) ==
    /\ pc[t] = "gc_assign"
    /\ client' = [client EXCEPT ![tm[t]] = tmp[t]]
    /\ tmp' = [tmp EXCEPT ![t] = None]
    /\ pc' = [pc EXCEPT ![t] = "gc_return"]
    /\ Quiet
    /\ UNCHANGED <<env, keyText, loaded, nextId, closeLog, built, held, tm, ret,
                   inReq, nstarted, nreq, ncalls>>

\* get_client: `return cls._client`, a second read of the attribute.
GcReturn(t) ==
    /\ pc[t] = "gc_return"
    /\ ret' = [ret EXCEPT ![t] = [op |-> "get", raised |-> FALSE, h |-> client[tm[t]]]]
    /\ held' = [held EXCEPT ![tm[t]] = @ \cup ({client[tm[t]]} \ {None})]
    /\ pc' = [pc EXCEPT ![t] = IF inReq[t] THEN "handler" ELSE "idle"]
    /\ Quiet
    /\ UNCHANGED <<env, keyText, loaded, client, nextId, closeLog, built, tm, tmp,
                   inReq, nstarted, nreq, ncalls>>

\* close_client, line 1: `if cls._client is not None`.
CcCheck(t) ==
    /\ pc[t] = "cc_check"
    /\ IF client[tm[t]] # None
       THEN /\ pc' = [pc EXCEPT ![t] = IF HasClose(tm[t]) THEN "cc_close" ELSE "cc_reset"]
            /\ ret' = ret
       ELSE /\ pc' = [pc EXCEPT ![t] = AfterCall(t, tm[t])]
            /\ ret' = [ret EXCEPT ![t] = [op |-> "close", raised |-> FALSE, h |-> None]]
    /\ Quiet
    /\ UNCHANGED <<env, keyText, loaded, client, nextId, closeLog, built, held, tm, tmp,
                   inReq, nstarted, nreq, ncalls>>

\* close_client: `cls._client.close()`.  The attribute is read again: if it
\* has become None the call raises AttributeError; otherwise the vendor
\* close() runs on the handle and returns or raises.
CcClose(t) ==
    /\ pc[t] = "cc_close"
    /\ IF client[tm[t]] = None
       THEN /\ closeLog' = closeLog
            /\ pc' = [pc EXCEPT ![t] = AfterRaise(t)]
            /\ ret' = [ret EXCEPT ![t] = [op |-> "close", raised |-> TRUE, h |-> None]]
       ELSE /\ closeLog' = Append(closeLog, client[tm[t]])
            /\ \E raises \in BOOLEAN :
                 IF raises
                 THEN /\ pc' = [pc EXCEPT ![t] = AfterRaise(t)]
                      /\ ret' = [ret EXCEPT ![t] = [op |-> "close", raised |-> TRUE,
                                                    h |-> client[tm[t]]]]
                 ELSE /\ pc' = [pc EXCEPT ![t] = "cc_reset"]
                      /\ ret' = ret
    /\ Quiet
    /\ UNCHANGED <<env, keyText, loaded, client, nextId, built, held, tm, tmp,
                   inReq, nstarted, nreq, ncalls>>

\* close_client: `cls._client = None`.
CcReset(t) ==
    /\ pc[t] = "cc_reset"
    /\ client' = [client EXCEPT ![tm[t]] = None]
    /\ built' = [built EXCEPT ![tm[t]] = {}]
    /\ held' = [held EXCEPT ![tm[t]] = {}]
    /\ ret' = [ret EXCEPT ![t] = [op |-> "close", raised |-> FALSE, h |-> client[tm[t]]]]
    /\ pc' = [pc EXCEPT ![t] = AfterCall(t, tm[t])]
    /\ Quiet
    /\ UNCHANGED <<env, keyText, loaded, nextId, closeLog, tm, tmp,
                   inReq, nstarted, nreq, ncalls>>

\* A faulty get_client: a failed construction leaves a handle stored.
GcCreateFailStores(t) ==
    /\ pc[t] = "gc_create"
    /\ pc' = [pc EXCEPT ![t] = AfterRaise(t)]
    /\ ret' = [ret EXCEPT ![t] = [op |-> "get", raised |-> TRUE, h |-> None]]
    /\ client' = [client EXCEPT ![tm[t]] = nextId + 1]
    /\ IF ~inReq[t]
       THEN Quiet /\ UNCHANGED inReq
       ELSE /\ lastResp' \in {Answer(r, Http500, FALSE, 0,
                                     EmptyDict, EmptyDict, EmptyDict, EmptyDict) :
                                 r \in RoutesOf(tm[t])}
            /\ inReq' = [inReq EXCEPT ![t] = FALSE]
    /\ UNCHANGED <<env, keyText, loaded, nextId, closeLog, built, held, tm, tmp,
                   nstarted, nreq, ncalls>>

\* _create_client raises: get_secret_key failed, or the vendor constructor
\* did.  get_client stores nothing and the exception reaches the caller; for
\* a request the framework answers 500 and the handler never runs.
GcCreateFail(t) ==
    /\ pc[t] = "gc_create"
    /\ pc' = [pc EXCEPT ![t] = AfterRaise(t)]
    /\ ret' = [ret EXCEPT ![t] = [op |-> "get", raised |-> TRUE, h |-> None]]
    /\ IF ~inReq[t]
       THEN Quiet /\ UNCHANGED inReq
       ELSE /\ lastResp' \in {Answer(r, Http500, FALSE, 0,
                                     EmptyDict, EmptyDict, EmptyDict, EmptyDict) :
                                 r \in RoutesOf(tm[t])}
            /\ inReq' = [inReq EXCEPT ![t] = FALSE]
    /\ UNCHANGED <<env, keyText, loaded, client, nextId, closeLog, built, held, tm, tmp,
                   nstarted, nreq, ncalls>>

\* ------------------------------------------- callers of the managers

\* A thread calls get_client of manager m.
CallGet(t, m) ==
    /\ pc[t] = "idle"
    /\ nstarted < MaxCalls
    /\ nstarted' = nstarted + 1
    /\ tm' = [tm EXCEPT ![t] = m]
    /\ pc' = [pc EXCEPT ![t] = "gc_check"]
    /\ Quiet
    /\ UNCHANGED <<env, keyText, loaded, client, nextId, closeLog, built, held, tmp, ret,
                   inReq, nreq, ncalls>>

\* A thread calls close_client of manager m.
CallClose(t, m) ==
    /\ pc[t] = "idle"
    /\ nstarted < MaxCalls
    /\ nstarted' = nstarted + 1
    /\ tm' = [tm EXCEPT ![t] = m]
    /\ pc' = [pc EXCEPT ![t] = "cc_check"]
    /\ Quiet
    /\ UNCHANGED <<env, keyText, loaded, client, nextId, closeLog, built, held, tmp, ret,
                   inReq, nreq, ncalls>>

AllIdle == \A t \in Threads : pc[t] = "idle"

MgrStep(t) ==
    \/ GcCheck(t)
    \/ GcCreateOk(t)
    \/ GcCreateFail(t)
    \/ GcAssign(t)
    \/ GcReturn(t)
    \/ CcCheck(t)
    \/ CcClose(t)
    \/ CcReset(t)

InitCommon ==
    /\ client = [m \in Managers |-> None]
    /\ nextId = 0
    /\ closeLog = <<>>
    /\ built = [m \in Managers |-> {}]
    /\ held = [m \in Managers |-> {}]
    /\ tm = [t \in AllThreads |-> "fb"]
    /\ tmp = [t \in AllThreads |-> None]
    /\ ret = [t \in AllThreads |-> NoRet]
    /\ inReq = [t \in AllThreads |-> FALSE]
    /\ nstarted = 0
    /\ nreq = 0
    /\ ncalls = 0
    /\ lastResp = NoResp

\* The managers are importable on their own: any environment.
InitMgr ==
    /\ env \in Envs
    /\ keyText = DefaultKeyText
    /\ loaded = NoLoad
    /\ pc = [t \in AllThreads |-> IF t = Main THEN "boot" ELSE "idle"]
    /\ InitCommon

NextMgr ==
    \E t \in Threads :
        \/ \E m \in Managers : CallGet(t, m) \/ CallClose(t, m)
        \/ MgrStep(t)

\* Callers of the managers on concurrent threads.
SpecMgr == InitMgr /\ [][NextMgr]_vars

NextSeq ==
    \E t \in Threads :
        \/ \E m \in Managers : AllIdle /\ (CallGet(t, m) \/ CallClose(t, m))
        \/ MgrStep(t)

\* Callers of the managers, one call at a time.
SpecSeq == InitMgr /\ [][NextSeq]_vars

\* ------------------------------------------- callers of Config
\* (the loader on its own: any environment, any file contents)

KeyChars == {"k", " ", "\n"}

KeyTexts == UNION {[1..n -> KeyChars] : n \in 0..KeyTextLen}

\* A direct call of Config.get_secret_key().
LoadSecret ==
    /\ loaded' = [op |-> "get_secret_key", out |-> GetSecretKey(env),
                  value |-> IF GetSecretKey(env) = "ok" THEN SecretKey(keyText) ELSE <<>>]
    /\ UNCHANGED <<env, keyText, client, nextId, closeLog, built, held, pc, tm, tmp, ret,
                   inReq, nstarted, nreq, ncalls, lastResp>>

\* A direct call of Config.validate(), which returns nothing.
CallValidate ==
    /\ loaded' = [op |-> "validate", out |-> Validate(env), value |-> <<>>]
    /\ UNCHANGED <<env, keyText, client, nextId, closeLog, built, held, pc, tm, tmp, ret,
                   inReq, nstarted, nreq, ncalls, lastResp>>

InitCfg ==
    /\ env \in Envs
    /\ keyText \in KeyTexts
    /\ loaded = NoLoad
    /\ pc = [t \in AllThreads |-> IF t = Main THEN "boot" ELSE "idle"]
    /\ InitCommon

NextCfg == LoadSecret \/ CallValidate

\* Callers of the configuration loader.
SpecCfg == InitCfg /\ [][NextCfg]_vars

\* ---------------------------------------------------------- the routes

\* A vendor method raised an exception whose str() is msg.
Err(msg) == [err |-> TRUE, msg |-> msg, data |-> EmptyDict]

\* A vendor method returned d.
Ok(d) == [err |-> FALSE, msg |-> <<>>, data |-> d]

\* A call of a vendor method with keyword arguments.
VCall(method, args) == [method |-> method, args |-> args]

\* Messages of vendor exceptions.
Msg404 == <<"(", "4", "0", "4", ")">>

MsgLower == <<"x", " ", "n", "o", "t", " ", "f", "o", "u", "n", "d">>

MsgTitle == <<"N", "o", "t", " ", "F", "o", "u", "n", "d">>

MsgUpper == <<"N", "O", "T", " ", "F", "O", "U", "N", "D">>

MsgJoined == <<"n", "o", "t", "f", "o", "u", "n", "d", " ", "4", "0", "0">>

MsgTimeout == <<"t", "i", "m", "e", "d", " ", "o", "u", "t">>

LookupMsgs == {Msg404, MsgLower, MsgTitle, MsgUpper, MsgJoined, MsgTimeout}

OtherMsgs == {Msg404, MsgTimeout}

\* The except clause of every handler but get_vault_account: 500, whatever
\* the message.
ErrorStatus(msg) == Http500

\* A faulty handler: a failed vendor call is made once more.
VendorCallsRetry(out) == IF out.err THEN 2 ELSE 1

\* Vendor method calls a handler makes once it reaches its vendor call: the
\* one call; an exception goes straight to the except clause.
VendorCalls(out) == 1

\* The handler could not use its client (None has no attributes): the
\* AttributeError is caught by the handler's `except Exception`.
NoClient(r, st, input) ==
    Answer(r, st, TRUE, 0, input, EmptyDict, EmptyDict, EmptyDict)

\* ---- GET /vault-accounts

DefaultLimit == 100

\* The query string: the parameters the request supplies.
QueryOf(b, a, l, f) ==
    DropNone([before |-> b, after |-> a, limit |-> l, namePrefix |-> f])

BeforeValues == {PyNone, Str(""), Str("c1")}

AfterValues == {PyNone, Str(""), Str("c2")}

LimitValues == {PyNone, IntV(500)}

PrefixValues == {PyNone, Str("ops")}

\* A faulty listing: limit has no default.
ListParamsNoDefault(q) ==
    DropNone([name_prefix |-> Get(q, "namePrefix"),
              name_suffix |-> Get(q, "nameSuffix"),
              min_amount_threshold |-> Get(q, "minAmountThreshold"),
              asset_id |-> Get(q, "assetId"),
              order_by |-> Get(q, "orderBy"),
              before |-> Get(q, "before"),
              after |-> Get(q, "after"),
              limit |-> Get(q, "limit")])

\* get_paged_vault_accounts: the params dict, None values removed.  Query(100)
\* binds limit to 100 when the request does not supply it.
ListParams(q) ==
    DropNone([name_prefix |-> Get(q, "namePrefix"),
              name_suffix |-> Get(q, "nameSuffix"),
              min_amount_threshold |-> Get(q, "minAmountThreshold"),
              asset_id |-> Get(q, "assetId"),
              order_by |-> Get(q, "orderBy"),
              before |-> Get(q, "before"),
              after |-> Get(q, "after"),
              limit |-> GetOr(q, "limit", IntV(DefaultLimit))])

ListAccountsResult(q, out, have) ==
    IF ~have THEN NoClient("list_accounts", Http500, q)
    ELSE IF out.err
    THEN Answer("list_accounts", ErrorStatus(out.msg), TRUE, VendorCalls(out), q,
                VCall("get_paged_vault_accounts", ListParams(q)), out, EmptyDict)
    ELSE Answer("list_accounts", Http200, TRUE, VendorCalls(out), q,
                VCall("get_paged_vault_accounts", ListParams(q)), out,
                [data |-> out.data, statusCode |-> IntV(Http200)])

\* ---- GET /vault-assets/{vault_account_id}/{asset_id}/addresses

\* A key is added to a dict only under its `if`.
PutIf(cond, k, v) == IF cond THEN [x \in {k} |-> v] ELSE EmptyDict

Merge(d1, d2) ==
    [k \in (DOMAIN d1) \cup (DOMAIN d2) |-> IF k \in DOMAIN d2 THEN d2[k] ELSE d1[k]]

\* get_vault_account_asset_addresses: params is filled under `if before:`,
\* `if after:`, `if limit:`, then None values are removed.
AddressParams(q) ==
    LET before == Get(q, "before")
        after == Get(q, "after")
        limit == GetOr(q, "limit", IntV(DefaultLimit))
    IN DropNone(Merge(Merge(PutIf(Truthy(before), "before", before),
                            PutIf(Truthy(after), "after", after)),
                      PutIf(Truthy(limit), "limit", limit)))

AddressesResult(vault, asset, q, out, have) ==
    LET input == [vault_account_id |-> vault, asset_id |-> asset, query |-> q]
        args == Merge([vault_account_id |-> vault, asset_id |-> asset], AddressParams(q))
    IN IF ~have THEN NoClient("addresses", Http500, input)
       ELSE IF out.err
       THEN Answer("addresses", ErrorStatus(out.msg), TRUE, VendorCalls(out), input,
                   VCall("get_vault_account_asset_addresses_paginated", args), out, EmptyDict)
       ELSE Answer("addresses", Http200, TRUE, VendorCalls(out), input,
                   VCall("get_vault_account_asset_addresses_paginated", args), out,
                   [data |-> out.data, statusCode |-> IntV(Http200)])

\* ---- GET /vault-accounts/{vault_account_id} and POST /vault-accounts

\* Account objects the vendor may return (attributes may be None).
VendorAccounts ==
    [id : {PyNone, Str("7")}, name : {PyNone, Str("Ops"), Str("Dev")},
     hidden_on_ui : {Bool(FALSE)}, auto_fuel : {PyNone, Bool(TRUE)},
     customer_ref_id : {PyNone}, assets : {PyNone}, tags : {PyNone}]

\* VaultAccountResponse(...): id and name are required strings; building it
\* from an account without them raises a validation error.
AccountResponseValid(acc) == acc.id.t = "str" /\ acc.name.t = "str"

\* VaultAccountResponse(...) built from the vendor's account object.
AccountBody(acc) ==
    [id |-> acc.id, name |-> acc.name, hidden_on_ui |-> acc.hidden_on_ui,
     auto_fuel |-> acc.auto_fuel, customer_ref_id |-> acc.customer_ref_id,
     assets |-> IF Truthy(acc.assets) THEN acc.assets ELSE PyNone, tags |-> acc.tags]

\* A faulty response: the three flags are read from the request.
CreatedBodyEchoesRequest(acc, req) ==
    [id |-> acc.id, name |-> req.name, hidden_on_ui |-> req.hidden_on_ui,
     auto_fuel |-> req.auto_fuel, customer_ref_id |-> acc.customer_ref_id,
     assets |-> IF Truthy(acc.assets) THEN acc.assets ELSE PyNone, tags |-> acc.tags]

\* create_vault_account's response, with the request req in scope: every
\* field is read from the vendor's account object.
CreatedBody(acc, req) == AccountBody(acc)

\* A faulty except clause: the message is not lower-cased.
LookupStatusCaseSensitive(msg) ==
    IF Contains(msg, Str404) \/ Contains(msg, StrNotFound) THEN Http404 ELSE Http500

\* get_vault_account's except clause: 404 when the message contains "404"
\* or, lower-cased, "not found"; otherwise 500.
LookupStatus(msg) ==
    IF Contains(msg, Str404) \/ Contains(Lower(msg), StrNotFound)
    THEN Http404 ELSE Http500

\* The message of the validation error raised while building a response.
MsgValidation == <<"v", "a", "l", "i", "d", "a", "t", "i", "o", "n">>

GetAccountResult(id, out, have) ==
    LET input == [vault_account_id |-> id]
        call == VCall("get_vault_account", [vault_account_id |-> id])
    IN IF ~have THEN NoClient("get_account", Http500, input)
       ELSE IF out.err
       THEN Answer("get_account", LookupStatus(out.msg), TRUE, VendorCalls(out), input, call, out, EmptyDict)
       ELSE IF ~AccountResponseValid(out.data)
       THEN Answer("get_account", LookupStatus(MsgValidation), TRUE, VendorCalls(out), input, call, out,
                   EmptyDict)
       ELSE Answer("get_account", Http200, TRUE, VendorCalls(out), input, call, out,
                   AccountBody(out.data))

CreateAccountResult(req, out, have) ==
    LET call == VCall("create_vault_account",
                      [name |-> req.name, hidden_on_ui |-> req.hidden_on_ui,
                       auto_fuel |-> req.auto_fuel])
    IN IF ~have THEN NoClient("create_account", Http500, req)
       ELSE IF out.err
       THEN Answer("create_account", ErrorStatus(out.msg), TRUE, VendorCalls(out), req, call, out, EmptyDict)
       ELSE IF ~AccountResponseValid(out.data)
       THEN Answer("create_account", ErrorStatus(MsgValidation), TRUE, VendorCalls(out), req, call, out,
                   EmptyDict)
       ELSE Answer("create_account", Http201, TRUE, VendorCalls(out), req, call, out,
                   CreatedBody(out.data, req))

CreateAccountRequests ==
    [name : {Str("Ops")}, hidden_on_ui : {Bool(TRUE), Bool(FALSE)},
     auto_fuel : {Bool(TRUE), Bool(FALSE)}]

\* ---- the routes of the second-generation SDK, which returns dicts

\* A dict the vendor returns, with the keys S.
VendorDict(S) == [k \in S |-> IF k = "id" THEN Str("vendor-id") ELSE Str("vendor-value")]

\* ---- GET /vault-assets/{vault_account_id}/{asset_id}

AssetMapped == {"id", "total", "available", "pending", "frozen", "lockedAmount",
                "staked", "blockHeight", "blockHash"}

\* Dicts the vendor may return: any of the keys, and an id that is null.
AssetDicts ==
    {VendorDict(S) : S \in SUBSET {"id", "total", "activationTime"}}
        \cup {[id |-> PyNone, total |-> Str("vendor-value")]}

\* VaultAssetResponse(...) and VaultWalletResponse(...): id is a required
\* string; building the response with another id raises a validation error.
IdValid(v) == v.t = "str"

AssetBalanceResult(vault, asset, out, have) ==
    LET input == [vault_account_id |-> vault, asset_id |-> asset]
        call == VCall("get_vault_account_asset", input)
        d == out.data
    IN IF ~have THEN NoClient("asset_balance", Http500, input)
       ELSE IF out.err
       THEN Answer("asset_balance", ErrorStatus(out.msg), TRUE, VendorCalls(out), input, call, out, EmptyDict)
       ELSE IF ~IdValid(GetOr(d, "id", asset))
       THEN Answer("asset_balance", ErrorStatus(MsgValidation), TRUE, VendorCalls(out), input, call,
                   out, EmptyDict)
       ELSE Answer("asset_balance", Http200, TRUE, VendorCalls(out), input, call, out,
                   [id |-> GetOr(d, "id", asset), total |-> Get(d, "total"),
                    available |-> Get(d, "available"), pending |-> Get(d, "pending"),
                    frozen |-> Get(d, "frozen"), locked_amount |-> Get(d, "lockedAmount"),
                    staked |-> Get(d, "staked"), block_height |-> Get(d, "blockHeight"),
                    block_hash |-> Get(d, "blockHash"),
                    additional_data |-> Without(d, AssetMapped)])

\* ---- POST /vault-wallets

WalletDicts ==
    {VendorDict(S) : S \in SUBSET {"id", "address"}}
        \cup {[id |-> PyNone, address |-> Str("vendor-value")]}

CreateWalletResult(req, out, have) ==
    LET call == VCall("create_vault_asset",
                      [vault_account_id |-> req.vault_account_id, asset_id |-> req.asset_id])
        d == out.data
    IN IF ~have THEN NoClient("create_wallet", Http500, req)
       ELSE IF out.err
       THEN Answer("create_wallet", ErrorStatus(out.msg), TRUE, VendorCalls(out), req, call, out, EmptyDict)
       ELSE IF ~IdValid(GetOr(d, "id", req.vault_account_id))
       THEN Answer("create_wallet", ErrorStatus(MsgValidation), TRUE, VendorCalls(out), req, call,
                   out, EmptyDict)
       ELSE Answer("create_wallet", Http201, TRUE, VendorCalls(out), req, call, out,
                   [id |-> GetOr(d, "id", req.vault_account_id),
                    address |-> Get(d, "address"),
                    legacy_address |-> Get(d, "legacyAddress"), tag |-> Get(d, "tag")])

\* ---- POST /transactions

TxMapped == {"id", "status", "assetId", "amount", "source", "destination", "fee",
             "networkFee", "createdAt", "lastUpdated", "txHash", "subStatus"}

TxDicts == {VendorDict(S) : S \in SUBSET {"id", "status", "feeCurrency"}}

TxRequests ==
    [asset_id : {Str("BTC")}, source_vault_account_id : {Str("1")},
     destination_vault_account_id : {Str("2")}, amount : {Str("0.5")},
     note : {PyNone, Str("rent")}, fee_level : {PyNone, Str("HIGH")}]

\* TransactionResponse(...): id and status are required strings.
TxResponseValid(d) == Get(d, "id").t = "str" /\ Get(d, "status").t = "str"

\* A faulty call: source and destination change places.
TxCallSwapsPeers(req) ==
    VCall("create_transaction",
          [asset_id |-> req.asset_id, amount |-> req.amount,
           source |-> [type |-> "VAULT_ACCOUNT", id |-> req.destination_vault_account_id],
           destination |-> [type |-> "VAULT_ACCOUNT", id |-> req.source_vault_account_id],
           tx_type |-> "TRANSFER", note |-> req.note, fee_level |-> req.fee_level])

\* fireblocks.create_transaction(...): the peers are TransferPeerPath and
\* DestinationTransferPeerPath of type VAULT_ACCOUNT.
TxCall(req) ==
    VCall("create_transaction",
          [asset_id |-> req.asset_id, amount |-> req.amount,
           source |-> [type |-> "VAULT_ACCOUNT", id |-> req.source_vault_account_id],
           destination |-> [type |-> "VAULT_ACCOUNT", id |-> req.destination_vault_account_id],
           tx_type |-> "TRANSFER", note |-> req.note, fee_level |-> req.fee_level])

CreateTransactionResult(req, out, have) ==
    LET call == TxCall(req)
        d == out.data
    IN IF ~have THEN NoClient("create_transaction", Http500, req)
       ELSE IF out.err
       THEN Answer("create_transaction", ErrorStatus(out.msg), TRUE, VendorCalls(out), req, call, out,
                   EmptyDict)
       ELSE IF ~TxResponseValid(d)
       THEN Answer("create_transaction", ErrorStatus(MsgValidation), TRUE, VendorCalls(out), req, call, out,
                   EmptyDict)
       ELSE Answer("create_transaction", Http201, TRUE, VendorCalls(out), req, call, out,
                   [id |-> Get(d, "id"), status |-> Get(d, "status"),
                    asset_id |-> Get(d, "assetId"), amount |-> Get(d, "amount"),
                    source |-> Get(d, "source"), destination |-> Get(d, "destination"),
                    fee |-> Get(d, "fee"), network_fee |-> Get(d, "networkFee"),
                    created_at |-> Get(d, "createdAt"),
                    last_updated |-> Get(d, "lastUpdated"),
                    tx_hash |-> Get(d, "txHash"), sub_status |-> Get(d, "subStatus"),
                    additional_data |-> Without(d, TxMapped)])

\* ---- POST /tokens

\* The keys issue_new_token copies into named response fields.
TokenMapped == {"id", "status", "assetId", "blockchainId", "vaultAccountId"}

TokenDicts == {VendorDict(S) : S \in SUBSET {"id", "assetId", "txHash"}}

DeployParam ==
    Obj([name |-> Str("supply"), type |-> Str("uint256"), internal_type |-> Str("uint256"),
         value |-> IntV(1), description |-> PyNone])

EvmValues ==
    {PyNone,
     Obj([contract_id |-> Str("tmpl"), deploy_function_params |-> PyNone]),
     Obj([contract_id |-> Str("tmpl"), deploy_function_params |-> List(<<>>)]),
     Obj([contract_id |-> Str("tmpl"), deploy_function_params |-> List(<<DeployParam>>)])}

StellarValues ==
    {PyNone,
     Obj([issuer_address |-> Str("rIssuer"), symbol |-> Str("TKN"), name |-> PyNone])}

TokenRequests ==
    [vault_account_id : {Str("1")}, asset_id : {PyNone}, blockchain_id : {Str("XRP")},
     display_name : {PyNone}, evm_params : EvmValues, stellar_ripple_params : StellarValues]

\* The SDK's ParameterWithValue built from one deploy parameter.
SdkParam(p) ==
    [name |-> p.v.name, type |-> p.v.type, internal_type |-> p.v.internal_type,
     value |-> p.v.value, function_value |-> PyNone, description |-> p.v.description]

\* A faulty conversion: the Stellar/Ripple symbol and name change places.
CreateParamsSwapsNames(req) ==
    IF Truthy(req.evm_params)
    THEN [shape |-> "evm", contract_id |-> req.evm_params.v.contract_id,
          deploy_function_params |-> PyNone]
    ELSE [shape |-> "stellar_ripple",
          issuer_address |-> req.stellar_ripple_params.v.issuer_address,
          symbol |-> req.stellar_ripple_params.v.name,
          name |-> req.stellar_ripple_params.v.symbol]

\* create_params: the EVM shape when evm_params is set, else Stellar/Ripple.
CreateParams(req) ==
    IF Truthy(req.evm_params)
    THEN LET dfp == req.evm_params.v.deploy_function_params
         IN [shape |-> "evm", contract_id |-> req.evm_params.v.contract_id,
             deploy_function_params |->
                 IF Truthy(dfp)
                 THEN List([i \in 1..Len(dfp.v) |-> SdkParam(dfp.v[i])])
                 ELSE PyNone]
    ELSE [shape |-> "stellar_ripple",
          issuer_address |-> req.stellar_ripple_params.v.issuer_address,
          symbol |-> req.stellar_ripple_params.v.symbol,
          name |-> req.stellar_ripple_params.v.name]

\* A faulty validation: only the neither-group check is made.
TokenRejectedOnlyIfNeither(req) ==
    ~Truthy(req.evm_params) /\ ~Truthy(req.stellar_ripple_params)

\* The two 400 checks of issue_new_token: neither group, or both.
TokenRejected(req) ==
    \/ ~Truthy(req.evm_params) /\ ~Truthy(req.stellar_ripple_params)
    \/ Truthy(req.evm_params) /\ Truthy(req.stellar_ripple_params)

\* additional_data=token_data: the whole vendor dict.
TokenBucket(d) == d

IssueTokenResult(req, out, have) ==
    LET call == VCall("issue_new_token",
                      [vault_account_id |-> req.vault_account_id,
                       create_params |-> CreateParams(req), asset_id |-> req.asset_id,
                       blockchain_id |-> req.blockchain_id,
                       display_name |-> req.display_name])
        d == out.data
    IN IF TokenRejected(req)
       THEN Answer("issue_token", Http400, TRUE, 0, req, EmptyDict, EmptyDict, EmptyDict)
       ELSE IF ~have THEN NoClient("issue_token", Http500, req)
       ELSE IF out.err
       THEN Answer("issue_token", ErrorStatus(out.msg), TRUE, VendorCalls(out), req, call, out, EmptyDict)
       ELSE Answer("issue_token", Http201, TRUE, VendorCalls(out), req, call, out,
                   [id |-> Get(d, "id"), status |-> Get(d, "status"),
                    asset_id |-> Get(d, "assetId"), blockchain_id |-> Get(d, "blockchainId"),
                    vault_account_id |-> Get(d, "vaultAccountId"),
                    additional_data |-> TokenBucket(d)])

\* ---- GET /

\* A faulty health check: the status is left out.
HealthBodyNoStatus ==
    [status |-> PyNone, service |-> Str("fireblocks-service"), version |-> Str("1.0.0")]

HealthBody ==
    [status |-> Str("healthy"), service |-> Str("fireblocks-service"),
     version |-> Str("1.0.0")]

\* ------------------------------------------------------ the application

Serving == pc[Main] = "serving"

\* lifespan, startup: config.validate(); an exception is re-raised and the
\* application does not start.
Startup ==
    /\ pc[Main] = "boot"
    /\ pc' = [pc EXCEPT ![Main] = IF Validate(env) = "ok" THEN "serving" ELSE "failed"]
    /\ Quiet
    /\ UNCHANGED <<env, keyText, loaded, client, nextId, closeLog, built, held, tm, tmp, ret,
                   inReq, nstarted, nreq, ncalls>>

\* A worker thread takes a request for a route whose client dependency is
\* manager m.  The framework resolves the dependency (get_client) before it
\* reports schema errors and before it calls the handler; nothing until then
\* reads the request, so its route and input are drawn when they are used.
ReqStart(t, m) ==
    /\ Serving
    /\ pc[t] = "idle"
    /\ nreq < MaxRequests
    /\ nreq' = nreq + 1
    /\ inReq' = [inReq EXCEPT ![t] = TRUE]
    /\ tm' = [tm EXCEPT ![t] = m]
    /\ pc' = [pc EXCEPT ![t] = "gc_check"]
    /\ Quiet
    /\ UNCHANGED <<env, keyText, loaded, client, nextId, closeLog, built, held, tmp, ret, nstarted, ncalls>>

\* The request of thread t is answered with ans.
Respond(t, ans) ==
    /\ lastResp' = ans
    /\ ncalls' = ncalls + ans.calls
    /\ pc' = [pc EXCEPT ![t] = "idle"]
    /\ inReq' = [inReq EXCEPT ![t] = FALSE]
    /\ ret' = [ret EXCEPT ![t] = NoRet]
    /\ UNCHANGED <<env, keyText, loaded, client, nextId, closeLog, built, held, tm, tmp, nstarted, nreq>>

\* health_check: no dependency, no vendor call.
Health(t) ==
    /\ Serving
    /\ pc[t] = "idle"
    /\ nreq < MaxRequests
    /\ nreq' = nreq + 1
    /\ lastResp' = Answer("health", Http200, TRUE, 0, EmptyDict, EmptyDict, EmptyDict,
                          HealthBody)
    /\ UNCHANGED <<env, keyText, loaded, client, nextId, closeLog, built, held, pc, tm, tmp, ret,
                   inReq, nstarted, ncalls>>

\* A non-empty string (Field(..., min_length=1)).
NonEmptyStr(x, k) == k \in DOMAIN x /\ x[k].t = "str" /\ x[k].v # ""

\* Query(100, ge=1, le=500): a supplied limit must lie in 1..500.
LimitInRange(q) ==
    "limit" \in DOMAIN q => (q["limit"].t = "int" /\ q["limit"].v >= 1 /\ q["limit"].v <= 500)

\* The request models and parameter declarations of the routes: input x is
\* accepted for route r.
SchemaValid(r, x) ==
    CASE r = "create_account" -> NonEmptyStr(x, "name")
      [] r = "list_accounts" -> LimitInRange(x)
      [] r = "addresses" -> LimitInRange(x.query)
      [] r = "create_wallet" -> NonEmptyStr(x, "vault_account_id") /\ NonEmptyStr(x, "asset_id")
      [] r = "create_transaction" ->
            /\ NonEmptyStr(x, "asset_id")
            /\ NonEmptyStr(x, "source_vault_account_id")
            /\ NonEmptyStr(x, "destination_vault_account_id")
            /\ NonEmptyStr(x, "amount")
      [] r = "issue_token" -> NonEmptyStr(x, "vault_account_id")
      [] OTHER -> TRUE

\* Requests that some route's schema refuses.
InvalidInputs(r) ==
    CASE r = "create_account" ->
            {[name |-> Str(""), hidden_on_ui |-> Bool(FALSE), auto_fuel |-> Bool(FALSE)]}
      [] r = "list_accounts" ->
            {QueryOf(PyNone, PyNone, IntV(0), PyNone), QueryOf(PyNone, PyNone, IntV(501), PyNone)}
      [] r = "addresses" ->
            {[vault_account_id |-> Str("1"), asset_id |-> Str("XRP"),
              query |-> QueryOf(PyNone, PyNone, IntV(501), PyNone)]}
      [] r = "create_wallet" -> {[vault_account_id |-> Str(""), asset_id |-> Str("BTC")]}
      [] r = "create_transaction" ->
            {[asset_id |-> Str("BTC"), source_vault_account_id |-> Str("1"),
              destination_vault_account_id |-> Str("2"), amount |-> Str("")]}
      [] r = "issue_token" ->
            {[evm_params |-> Obj([contract_id |-> Str("tmpl"),
                                  deploy_function_params |-> PyNone]),
              stellar_ripple_params |-> PyNone]}
      [] OTHER -> {}

\* The request fails schema validation: the framework answers 422, its
\* default for a RequestValidationError (the application registers no
\* exception handler), without calling the handler.
RejectInvalid(t) ==
    /\ pc[t] = "handler"
    /\ inReq[t]
    /\ \E r \in RoutesOf(tm[t]) :
       \E x \in InvalidInputs(r) :
          /\ CanFailSchema(r)
          /\ ~SchemaValid(r, x)
          /\ Respond(t, Answer(r, Http422, FALSE, 0, x, EmptyDict, EmptyDict, EmptyDict))

AtHandler(t, r) == pc[t] = "handler" /\ inReq[t] /\ tm[t] = ManagerOf(r)

Have(t) == ret[t].h # None

HandleListAccounts(t) ==
    /\ AtHandler(t, "list_accounts")
    /\ \E b \in BeforeValues, a \in AfterValues, l \in LimitValues :
       \E f \in IF b = PyNone /\ a = PyNone THEN PrefixValues ELSE {PyNone} :
       \E out \in {Err(m) : m \in OtherMsgs} \cup {Ok(Str("page"))} :
          Respond(t, ListAccountsResult(QueryOf(b, a, l, f), out, Have(t)))

HandleAddresses(t) ==
    /\ AtHandler(t, "addresses")
    /\ \E b \in BeforeValues, a \in AfterValues, l \in LimitValues :
       \E out \in {Err(m) : m \in OtherMsgs} \cup {Ok(Str("page"))} :
          Respond(t, AddressesResult(Str("1"), Str("XRP"), QueryOf(b, a, l, PyNone),
                                     out, Have(t)))

HandleGetAccount(t) ==
    /\ AtHandler(t, "get_account")
    /\ \E out \in {Err(m) : m \in LookupMsgs} \cup {Ok(a) : a \in VendorAccounts} :
          Respond(t, GetAccountResult(Str("7"), out, Have(t)))

HandleCreateAccount(t) ==
    /\ AtHandler(t, "create_account")
    /\ \E req \in CreateAccountRequests :
       \E out \in {Err(m) : m \in OtherMsgs} \cup {Ok(a) : a \in VendorAccounts} :
          Respond(t, CreateAccountResult(req, out, Have(t)))

HandleAssetBalance(t) ==
    /\ AtHandler(t, "asset_balance")
    /\ \E out \in {Err(m) : m \in OtherMsgs} \cup {Ok(d) : d \in AssetDicts} :
          Respond(t, AssetBalanceResult(Str("1"), Str("BTC"), out, Have(t)))

HandleCreateWallet(t) ==
    /\ AtHandler(t, "create_wallet")
    /\ \E out \in {Err(m) : m \in OtherMsgs} \cup {Ok(d) : d \in WalletDicts} :
          Respond(t, CreateWalletResult([vault_account_id |-> Str("1"),
                                         asset_id |-> Str("BTC")], out, Have(t)))

HandleCreateTransaction(t) ==
    /\ AtHandler(t, "create_transaction")
    /\ \E req \in TxRequests :
       \E out \in {Err(m) : m \in OtherMsgs} \cup {Ok(d) : d \in TxDicts} :
          Respond(t, CreateTransactionResult(req, out, Have(t)))

HandleIssueToken(t) ==
    /\ AtHandler(t, "issue_token")
    /\ \E req \in TokenRequests :
       \E out \in {Err(m) : m \in OtherMsgs} \cup {Ok(d) : d \in TokenDicts} :
          Respond(t, IssueTokenResult(req, out, Have(t)))

Handle(t) ==
    \/ HandleListAccounts(t)
    \/ HandleAddresses(t)
    \/ HandleGetAccount(t)
    \/ HandleCreateAccount(t)
    \/ HandleAssetBalance(t)
    \/ HandleCreateWallet(t)
    \/ HandleCreateTransaction(t)
    \/ HandleIssueToken(t)

\* lifespan, shutdown: FireblocksClientManager.close_client(), once the
\* server has stopped taking requests and the workers are done.
ShutdownFb ==
    /\ Serving
    /\ AllIdle
    /\ tm' = [tm EXCEPT ![Main] = "fb"]
    /\ pc' = [pc EXCEPT ![Main] = "cc_check"]
    /\ Quiet
    /\ UNCHANGED <<env, keyText, loaded, client, nextId, closeLog, built, held, tmp, ret,
                   inReq, nstarted, nreq, ncalls>>

\* lifespan, shutdown: then FireblocksSDKClientManager.close_client().
ShutdownSdk ==
    /\ pc[Main] = "shut_sdk"
    /\ tm' = [tm EXCEPT ![Main] = "sdk"]
    /\ pc' = [pc EXCEPT ![Main] = "cc_check"]
    /\ Quiet
    /\ UNCHANGED <<env, keyText, loaded, client, nextId, closeLog, built, held, tmp, ret,
                   inReq, nstarted, nreq, ncalls>>

Init ==
    /\ env \in Envs
    /\ keyText = DefaultKeyText
    /\ loaded = NoLoad
    /\ pc = [t \in AllThreads |-> IF t = Main THEN "boot" ELSE "idle"]
    /\ InitCommon

Next ==
    \/ Startup
    \/ ShutdownFb
    \/ ShutdownSdk
    \/ \E t \in Threads :
        \/ \E m \in Managers : ReqStart(t, m)
        \/ Health(t)
        \/ RejectInvalid(t)
        \/ Handle(t)
    \/ \E t \in AllThreads : MgrStep(t)

\* The application.
Spec == Init /\ [][Next]_vars

\* ================================================================ claims

\* C1: with the calls made one at a time (SpecSeq), a manager constructs at
\* most one handle between two resets, and every handle get_client has
\* returned since the last reset is that one handle, the one still stored.
C1_SingleHandle ==
    \A m \in Managers :
        /\ Cardinality(built[m]) <= 1
        /\ held[m] \subseteq built[m]
        /\ held[m] # {} => held[m] = {client[m]}

\* Two get_client calls on one manager, one after the other with no close
\* in between, returned the same handle, and one handle was constructed.
C1_Witness ==
    \E t, u \in Threads :
        /\ t # u
        /\ pc[t] = "idle" /\ pc[u] = "idle"
        /\ ret[t].op = "get" /\ ret[u].op = "get"
        /\ tm[t] = tm[u]
        /\ ret[t].h # None /\ ret[t].h = ret[u].h
        /\ built[tm[t]] = {ret[t].h}
        /\ closeLog = <<>>

\* C2: get_client holds no lock (SpecMgr): two callers that have both passed
\* the `_client is None` test of the same manager before either stored its
\* handle have each constructed a handle of their own, two distinct handles.
C2_RacersBuildDistinct ==
    \A t, u \in Threads :
        (t # u /\ tm[t] = tm[u] /\ pc[t] = "gc_assign" /\ pc[u] = "gc_assign")
            => (tmp[t] # None /\ tmp[u] # None /\ tmp[t] # tmp[u])

\* Two concurrent first calls on one manager have both returned: two handles
\* were constructed and the two callers hold different handles.
C2_Witness ==
    \E t, u \in Threads :
        /\ t # u
        /\ nstarted = 2
        /\ pc[t] = "idle" /\ pc[u] = "idle"
        /\ ret[t].op = "get" /\ ret[u].op = "get"
        /\ tm[t] = tm[u]
        /\ ret[t].h # None /\ ret[u].h # None /\ ret[t].h # ret[u].h
        /\ Cardinality(built[tm[t]]) = 2

\* C3, as claimed: whenever a close_client call ends (SpecSeq, one call at a
\* time), it has raised nothing and its manager is uninitialized.
C3_CloseLeavesUninitialized ==
    [][\A t \in Threads :
          (InClose(t) /\ pc'[t] = "idle")
              => (~ret'[t].raised /\ client'[tm[t]] = None)]_vars

\* C4: a POST /tokens request that reaches issue_new_token with both parameter
\* groups set, or with neither, is answered 400 without any vendor call.
BothOrNeither(req) == (req.evm_params = PyNone) = (req.stellar_ripple_params = PyNone)

C4_TokenRejected ==
    (lastResp.route = "issue_token" /\ lastResp.handled /\ BothOrNeither(lastResp.input))
        => (lastResp.status = Http400 /\ lastResp.calls = 0)

\* A token request with both groups set was answered 400.
C4_Witness ==
    /\ lastResp.route = "issue_token"
    /\ lastResp.handled
    /\ lastResp.input.evm_params # PyNone
    /\ lastResp.input.stellar_ripple_params # PyNone
    /\ lastResp.status = Http400

\* The vendor call of the answered request raised.
VendorFailed == lastResp.handled /\ lastResp.calls >= 1 /\ lastResp.vresp.err

\* The messages that contain "404" or "not found" as written.
SaysNotFoundVerbatim(msg) == msg \in {Msg404, MsgLower}

\* The messages that contain "404" or, in any letter case, "not found".
SaysNotFoundAnyCase(msg) == msg \in {Msg404, MsgLower, MsgTitle, MsgUpper}

\* C5, as claimed: on the account lookup a vendor error yields 404 when its
\* message contains "404" or "not found" and 500 otherwise; on every other
\* route a vendor error yields 500.
C5_Original ==
    VendorFailed =>
        lastResp.status =
            IF lastResp.route = "get_account" /\ SaysNotFoundVerbatim(lastResp.vresp.msg)
            THEN Http404 ELSE Http500

\* C5, amended: the match of "not found" ignores letter case.
C5_ErrorStatus ==
    VendorFailed =>
        lastResp.status =
            IF lastResp.route = "get_account" /\ SaysNotFoundAnyCase(lastResp.vresp.msg)
            THEN Http404 ELSE Http500

\* A lookup failed with a message that says "Not Found", which matches only
\* once lower-cased, and was answered 404.
C5_Witness ==
    /\ VendorFailed
    /\ lastResp.route = "get_account"
    /\ lastResp.vresp.msg = MsgTitle
    /\ lastResp.status = Http404

\* The keys a route copies into named response fields.
MappedKeys(r) ==
    CASE r = "asset_balance" -> AssetMapped
      [] r = "create_transaction" -> TxMapped
      [] r = "issue_token" -> TokenMapped

\* C6, as claimed: on the asset-balance, transaction and token routes the
\* additional_data bucket of a response holds exactly the vendor's keys
\* that are not copied into named fields.
C6_BucketHoldsTheRest ==
    (/\ lastResp.route \in {"asset_balance", "create_transaction", "issue_token"}
     /\ lastResp.status \in {Http200, Http201})
        => DOMAIN lastResp.body.additional_data
               = (DOMAIN lastResp.vresp.data) \ MappedKeys(lastResp.route)

Paginated == lastResp.route \in {"list_accounts", "addresses"} /\ lastResp.calls >= 1

Query == IF lastResp.route = "list_accounts" THEN lastResp.input ELSE lastResp.input.query

PageKeys == {"before", "after", "limit"}

\* C7, as claimed: each of before, after and limit reaches the vendor call
\* with the supplied value when supplied, and is absent from it otherwise.
C7_Original ==
    Paginated =>
        \A k \in PageKeys :
            IF k \in DOMAIN Query
            THEN k \in DOMAIN lastResp.vcall.args /\ lastResp.vcall.args[k] = Query[k]
            ELSE k \notin DOMAIN lastResp.vcall.args

\* C7, amended: limit is always passed, as supplied or else as the default
\* 100; before and after are passed as supplied, and are absent when not
\* supplied - and on the addresses route also when supplied empty.
C7_Pagination ==
    Paginated =>
        /\ "limit" \in DOMAIN lastResp.vcall.args
        /\ lastResp.vcall.args["limit"] =
               IF "limit" \in DOMAIN Query THEN Query["limit"] ELSE IntV(100)
        /\ \A k \in {"before", "after"} :
               IF k \in DOMAIN Query /\ (lastResp.route = "list_accounts" \/ Query[k] # Str(""))
               THEN k \in DOMAIN lastResp.vcall.args /\ lastResp.vcall.args[k] = Query[k]
               ELSE k \notin DOMAIN lastResp.vcall.args

\* A listing without limit, with a cursor, reached the vendor with limit 100.
C7_Witness ==
    /\ lastResp.route = "list_accounts"
    /\ lastResp.calls = 1
    /\ "limit" \notin DOMAIN lastResp.input
    /\ "before" \in DOMAIN lastResp.input
    /\ lastResp.vcall.args["limit"] = IntV(100)
    /\ lastResp.vcall.args["before"] = lastResp.input["before"]

Created == lastResp.route = "create_account" /\ lastResp.status = Http201

EchoKeys == {"name", "hidden_on_ui", "auto_fuel"}

\* C8, as claimed: a 201 response to POST /vault-accounts carries the
\* request's name, hidden_on_ui and auto_fuel.
C8_Original ==
    Created => \A k \in EchoKeys : lastResp.body[k] = lastResp.input[k]

\* C8, amended: the vendor is called with the request's three fields, and
\* the 201 response carries the three fields of the account the vendor
\* returned.
C8_RelaysVendor ==
    Created =>
        \A k \in EchoKeys :
            /\ lastResp.vcall.args[k] = lastResp.input[k]
            /\ lastResp.body[k] = lastResp.vresp.data[k]

\* An account was created and the vendor's object differs from the request.
C8_Witness ==
    /\ Created
    /\ lastResp.vresp.data.name # lastResp.input.name
    /\ lastResp.body.name = lastResp.vresp.data.name

\* The answered request passed the handler's own validation.
LocallyValid ==
    lastResp.route = "issue_token" => ~BothOrNeither(lastResp.input)

\* C9: a request makes at most one vendor call; one that its route's handler
\* receives makes exactly one when it passes the handler's validation and
\* none when it does not; one that never reaches the handler makes none;
\* the vendor calls made never outnumber the requests received.
C9_OneVendorCall ==
    /\ lastResp.calls \in {0, 1}
    /\ (lastResp.route \notin {NoRoute, "health"} /\ lastResp.handled)
           => (lastResp.calls = IF LocallyValid THEN 1 ELSE 0)
    /\ ~lastResp.handled => lastResp.calls = 0
    /\ ncalls <= nreq

\* Two requests were received, the vendor failed the second, and two vendor
\* calls were made.
C9_Witness ==
    /\ nreq = 2
    /\ ncalls = 2
    /\ VendorFailed
    /\ lastResp.route = "create_transaction"

\* All the configuration is present.
EnvComplete == env.apiKey /\ env.pathSet /\ env.keyFile = "ok"

\* C10: startup validation fails exactly when the API key is empty, the key
\* path is unset or the key file is missing or unreadable, and no request
\* is received before validation or after it has failed.
C10_StartupValidation ==
    /\ pc[Main] # "boot" => (pc[Main] = "failed" <=> ~EnvComplete)
    /\ pc[Main] \in {"boot", "failed"} =>
           (nreq = 0 /\ ncalls = 0 /\ lastResp = NoResp /\ \A t \in Threads : pc[t] = "idle")

\* Validation failed on the empty API key alone.
C10_Witness ==
    /\ pc[Main] = "failed"
    /\ ~env.apiKey
    /\ env.pathSet
    /\ env.keyFile = "ok"

\* The outcome of the last direct get_secret_key call.
Loaded == loaded.op = "get_secret_key"

\* text is value with whitespace, and nothing else, before and after it.
PaddingOf(text, value) ==
    \E i \in 0..Len(text) :
        /\ i + Len(value) <= Len(text)
        /\ SubSeq(text, i + 1, i + Len(value)) = value
        /\ \A j \in (1..i) \cup ((i + Len(value) + 1)..Len(text)) :
               text[j] \in {" ", "\n", "\t"}

\* value neither starts nor ends with whitespace.
Trimmed(value) ==
    value # <<>> => (value[1] \notin {" ", "\n", "\t"} /\ value[Len(value)] \notin {" ", "\n", "\t"})

\* C11, as claimed: get_secret_key raises ValueError when the path is unset,
\* FileNotFoundError when the path is set and the file does not exist, and in
\* every other case returns the file's contents trimmed; validate raises
\* ValueError on an empty API key.
C11_Original ==
    /\ Loaded =>
         IF ~env.pathSet THEN loaded.out = "ValueError"
         ELSE IF env.keyFile = "missing" THEN loaded.out = "FileNotFoundError"
         ELSE loaded.out = "ok" /\ Trimmed(loaded.value) /\ PaddingOf(keyText, loaded.value)
    /\ (loaded.op = "validate" /\ ~env.apiKey) => loaded.out = "ValueError"

\* C11, amended: there is a fourth outcome - when the file exists and cannot
\* be opened or read, the error of open() propagates.
C11_LoadSecret ==
    /\ Loaded =>
         IF ~env.pathSet THEN loaded.out = "ValueError"
         ELSE IF env.keyFile = "missing" THEN loaded.out = "FileNotFoundError"
         ELSE IF env.keyFile = "unreadable" THEN loaded.out = "OSError"
         ELSE loaded.out = "ok" /\ Trimmed(loaded.value) /\ PaddingOf(keyText, loaded.value)
    /\ (loaded.op = "validate" /\ ~env.apiKey) => loaded.out = "ValueError"

\* A key with whitespace on both sides was loaded and came back bare.
C11_Witness ==
    /\ Loaded
    /\ loaded.out = "ok"
    /\ keyText = <<" ", "k", "\n">>
    /\ loaded.value = <<"k">>

\* The request is one of the malformed ones: an empty name on POST
\* /vault-accounts, no vault_account_id on POST /tokens, a limit outside
\* 1..500 on a listing, an empty identifier or amount elsewhere.
Malformed ==
    /\ lastResp.input # EmptyDict
    /\ \/ lastResp.route = "create_account" /\ lastResp.input.name = Str("")
       \/ lastResp.route = "issue_token" /\ "vault_account_id" \notin DOMAIN lastResp.input
       \/ lastResp.route = "list_accounts" /\ "limit" \in DOMAIN lastResp.input
             /\ lastResp.input["limit"].v \notin 1..500
       \/ lastResp.route = "addresses" /\ "limit" \in DOMAIN lastResp.input.query
             /\ lastResp.input.query["limit"].v \notin 1..500
       \/ lastResp.route = "create_wallet" /\ lastResp.input.vault_account_id = Str("")
       \/ lastResp.route = "create_transaction" /\ lastResp.input.amount = Str("")

\* C12, as claimed: a request that fails schema validation is answered 400
\* and makes no vendor call.
C12_SchemaErrorIs400 ==
    Malformed => (lastResp.status = Http400 /\ lastResp.calls = 0)

\* The vendor's issue_new_token was called for the answered request.
TokenIssued == lastResp.route = "issue_token" /\ lastResp.calls = 1

\* The deploy parameters the vendor got are the request's, one for one and
\* in order; a request without any (absent or an empty list) passes none.
SameDeployParams(sent, given) ==
    IF given = PyNone \/ given.v = <<>>
    THEN sent = PyNone
    ELSE /\ sent.t = "list"
         /\ Len(sent.v) = Len(given.v)
         /\ \A i \in 1..Len(given.v) :
              \A k \in {"name", "type", "internal_type", "value", "description"} :
                  sent.v[i][k] = given.v[i].v[k]

\* C13: with exactly one parameter group set, issue_new_token gets the
\* create_params of that group's shape, carrying that group's fields and
\* none of the other's, and the four plain fields of the request unchanged.
C13_TokenShape ==
    TokenIssued =>
        LET req == lastResp.input
            args == lastResp.vcall.args
            cp == args.create_params
        IN /\ \A k \in {"vault_account_id", "asset_id", "blockchain_id", "display_name"} :
                 args[k] = req[k]
           /\ (req.evm_params = PyNone) # (req.stellar_ripple_params = PyNone)
           /\ req.evm_params = PyNone =>
                 /\ cp.shape = "stellar_ripple"
                 /\ DOMAIN cp = {"shape", "issuer_address", "symbol", "name"}
                 /\ \A k \in {"issuer_address", "symbol", "name"} :
                        cp[k] = req.stellar_ripple_params.v[k]
           /\ req.stellar_ripple_params = PyNone =>
                 /\ cp.shape = "evm"
                 /\ DOMAIN cp = {"shape", "contract_id", "deploy_function_params"}
                 /\ cp.contract_id = req.evm_params.v.contract_id
                 /\ SameDeployParams(cp.deploy_function_params,
                                     req.evm_params.v.deploy_function_params)

\* A request with only stellar_ripple_params reached the vendor in the
\* Stellar/Ripple shape.
C13_Witness ==
    /\ TokenIssued
    /\ lastResp.input.evm_params = PyNone
    /\ lastResp.vcall.args.create_params.shape = "stellar_ripple"
    /\ lastResp.vcall.args.create_params.symbol = Str("TKN")

\* C14: with one call at a time (SpecSeq), a get_client whose construction
\* fails ends by raising, with the manager still uninitialized and nothing
\* stored; a get_client that finds the manager uninitialized goes on to
\* construct; and a get_client that returns, returns a handle, never None.
C14_FailedGetStoresNothing ==
    [][\A t \in Threads :
          /\ (pc[t] = "gc_create" /\ pc'[t] \notin {"gc_create", "gc_assign"})
                => (/\ ret'[t] = [op |-> "get", raised |-> TRUE, h |-> None]
                    /\ client' = client
                    /\ client'[tm[t]] = None
                    /\ held' = held)
          /\ (pc[t] = "gc_check" /\ pc'[t] # "gc_check" /\ client[tm[t]] = None)
                => pc'[t] = "gc_create"
          /\ (pc[t] = "gc_return" /\ pc'[t] # "gc_return")
                => (~ret'[t].raised /\ ret'[t].h # None)]_vars

\* Of two get_client calls on one manager, the only calls made, one failed
\* and the other, which can only have come later, constructed a handle.
C14_Witness ==
    \E t, u \in Threads :
        /\ nstarted = 2
        /\ tm[t] = tm[u]
        /\ pc[t] = "idle" /\ pc[u] = "idle"
        /\ ret[t] = [op |-> "get", raised |-> TRUE, h |-> None]
        /\ ret[u].op = "get" /\ ~ret[u].raised /\ ret[u].h # None
        /\ client[tm[u]] = ret[u].h

\* C15: a step that answers GET / answers 200 with the one static status
\* object, whatever the state of the managers and whatever the vendor did
\* before; it makes no vendor call and constructs, stores, releases and
\* closes no handle.
C15_HealthIsStatic ==
    [][lastResp'.route = "health" =>
          /\ lastResp'.status = 200
          /\ lastResp'.body = [status |-> Str("healthy"),
                               service |-> Str("fireblocks-service"),
                               version |-> Str("1.0.0")]
          /\ lastResp'.calls = 0
          /\ ncalls' = ncalls
          /\ client' = client
          /\ nextId' = nextId
          /\ closeLog' = closeLog
          /\ built' = built]_vars

\* GET / was answered with the first-generation client initialized, the
\* other not, and after a vendor call was made.
C15_Witness ==
    /\ lastResp.route = "health"
    /\ lastResp.status = 200
    /\ client["fb"] # None
    /\ client["sdk"] = None
    /\ ncalls = 1


\* The lifespan's shutdown is over: it returned, or it raised.
ShutdownOver == pc[Main] \in {"stopped", "crashed"}

\* C16, as claimed: once shutdown is over - also when the first-generation
\* close() raised - both managers are uninitialized, and close() was called
\* once if a first-generation handle was stored, and not at all otherwise.
C16_ShutdownClosesBoth ==
    ShutdownOver =>
        /\ client["fb"] = None
        /\ client["sdk"] = None
        /\ Len(closeLog) <= 1


\* The handles on which close() has been called.
Closed == {closeLog[i] : i \in 1..Len(closeLog)}

\* C17, as claimed: under every interleaving of get_client and close_client
\* (SpecMgr), a get_client that returns, returns a handle - not None - on
\* which close() has not been called.
C17_ReturnsLiveHandle ==
    [][\A t \in Threads :
          (pc[t] = "gc_return" /\ pc'[t] # "gc_return")
              => (ret'[t].h # None /\ ret'[t].h \notin Closed)]_vars


\* The routes of the account and address groups, and the others.
FirstGenRoutes == {"list_accounts", "get_account", "create_account", "addresses"}

SecondGenRoutes == {"asset_balance", "create_wallet", "create_transaction", "issue_token"}

\* The manager that is not m.
OtherManager(m) == IF m = "fb" THEN "sdk" ELSE "fb"

\* C18, as claimed: while the application serves, a step changes a manager's
\* handle only by initializing it - from None, never replacing a handle -
\* on behalf of a request that uses that manager, and closes nothing; a
\* request answered on a first-generation route used the first manager and
\* one answered on another route the SDK manager; and a step of
\* close_client on one manager leaves the other manager's handle unchanged.
C18_RequestFrame ==
    [][/\ (Serving /\ Serving') =>
            /\ \A m \in Managers :
                  client'[m] # client[m] =>
                      /\ client[m] = None
                      /\ \E t \in Threads :
                            inReq[t] /\ tm[t] = m /\ pc[t] = "gc_assign" /\ pc'[t] # pc[t]
            /\ closeLog' = closeLog
            /\ \A t \in Threads :
                  (inReq[t] /\ ~inReq'[t]) =>
                      /\ lastResp'.route \in FirstGenRoutes => tm[t] = "fb"
                      /\ lastResp'.route \in SecondGenRoutes => tm[t] = "sdk"
                      /\ lastResp'.route \in FirstGenRoutes \cup SecondGenRoutes
       /\ (InClose(Main) /\ pc'[Main] # pc[Main]) =>
            client'[OtherManager(tm[Main])] = client[OtherManager(tm[Main])]]_vars


\* The vendor's create_transaction was called for the answered request.
TxSubmitted == lastResp.route = "create_transaction" /\ lastResp.calls = 1

\* C19: POST /transactions calls the vendor's create_transaction with
\* tx_type TRANSFER, a VAULT_ACCOUNT source carrying the request's source
\* id, a VAULT_ACCOUNT destination carrying its destination id, the
\* request's asset_id and amount, and note and fee_level as given, None
\* included.
C19_TransferCall ==
    TxSubmitted =>
        LET req == lastResp.input
            args == lastResp.vcall.args
        IN /\ lastResp.vcall.method = "create_transaction"
           /\ args.tx_type = "TRANSFER"
           /\ args.source = [type |-> "VAULT_ACCOUNT", id |-> req.source_vault_account_id]
           /\ args.destination =
                  [type |-> "VAULT_ACCOUNT", id |-> req.destination_vault_account_id]
           /\ args.asset_id = req.asset_id
           /\ args.amount = req.amount
           /\ args.note = req.note
           /\ args.fee_level = req.fee_level
           /\ DOMAIN args = {"asset_id", "amount", "source", "destination", "tx_type",
                             "note", "fee_level"}

\* A transfer from account 1 to account 2 without note reached the vendor
\* with the peers in place and note None.
C19_Witness ==
    /\ TxSubmitted
    /\ lastResp.input.note = PyNone
    /\ lastResp.input.fee_level = Str("HIGH")
    /\ lastResp.vcall.args.source.id = Str("1")
    /\ lastResp.vcall.args.destination.id = Str("2")
    /\ lastResp.vcall.args.note = PyNone


\* The vendor call of an asset-balance or wallet request returned.
IdRouteReturned ==
    /\ lastResp.route \in {"asset_balance", "create_wallet"}
    /\ lastResp.calls = 1
    /\ ~lastResp.vresp.err

\* The identifier the request asked about: the asset of a balance lookup,
\* the vault account of a wallet creation.
RequestedId ==
    IF lastResp.route = "asset_balance"
    THEN lastResp.input.asset_id ELSE lastResp.input.vault_account_id

\* The vendor's dict carries an id: the key is there and is not null.
CarriesId == "id" \in DOMAIN lastResp.vresp.data /\ lastResp.vresp.data["id"] # PyNone

\* C20, as claimed: the response carries the vendor's id when the vendor's
\* dict carries one and the requested identifier when it carries none; it
\* is a response with an id in both cases.
C20_IdFallback ==
    IdRouteReturned =>
        /\ lastResp.status \in {Http200, Http201}
        /\ lastResp.body # EmptyDict
        /\ lastResp.body.id = IF CarriesId THEN lastResp.vresp.data["id"] ELSE RequestedId

====
